---- MODULE Spec2Model ----
(***************************************************************************)
(* Shortcut smoother of motion_planners/tkinter/smooth.py:                 *)
(* find_lower_bound, get_curve_collision_fn and smooth_curve.              *)
(*                                                                         *)
(* Times are integers (a grid over the real time axis), bounds and         *)
(* positions are small integer vectors, and the lower bound is an exact    *)
(* rational [n, d].  A curve is the record of its knot times x, the knot   *)
(* positions p and velocities v, and the sets of times at which it exceeds *)
(* the velocity bound (vbad), exceeds the acceleration bound (abad) or its *)
(* sample satisfies the collision predicate (hit).                         *)
(***************************************************************************)
EXTENDS Integers, Sequences, FiniteSets, TLC

VARIABLES pc, opts, start_positions_curve, positions_curve, iteration,
          result, last, call

vars == <<pc, opts, start_positions_curve, positions_curve, iteration,
          result, last, call>>

\* Last knot time of the input curves.
MaxTime == 4
\* Largest iteration budget num.
MaxNum == 2

\* Python's None where a number is expected.
None == 0 - 1
\* Python's None where a vector is expected.
NoVec == << >>
\* Python's None where a curve is expected.
NoCurve == [x |-> << >>, p |-> << >>, v |-> << >>,
            vbad |-> {}, abad |-> {}, hit |-> {}]

Abs(a) == IF a < 0 THEN 0 - a ELSE a

RECURSIVE Gcd(_, _)
Gcd(a, b) == IF b = 0 THEN a ELSE Gcd(b, a % b)

\* Exact rationals n/d with d > 0, kept in lowest terms.
Rat(n, d) == LET g == Gcd(n, d) IN [n |-> n \div g, d |-> d \div g]
RLess(a, b) == a.n * b.d < b.n * a.d
RGeqInt(a, k) == a.n >= k * a.d
RMaxOf(a, b) == IF RLess(a, b) THEN b ELSE a

----------------------------------------------------------------------------
(* find_lower_bound *)

\* np.divide(np.subtract(b, a), lim)[k], in absolute value; lim = None is
\* np.full(d, INF), and a finite difference over INF is 0.
AbsQuot(a, b, lim, k) ==
    IF lim = NoVec THEN Rat(0, 1) ELSE Rat(Abs(b[k] - a[k]), lim[k])

\* np.linalg.norm(np.divide(np.subtract(b, a), lim), ord=INF) over the
\* first k dimensions.
RECURSIVE NormInf(_, _, _, _)
NormInf(a, b, lim, k) ==
    IF k = 0 THEN Rat(0, 1)
    ELSE RMaxOf(NormInf(a, b, lim, k - 1), AbsQuot(a, b, lim, k))

BothVelocities(v1, v2) == (v1 # NoVec) /\ (v2 # NoVec)

find_lower_bound_instant(x1, x2, v1, v2, v_max, a_max) ==
    NormInf(x1, x2, v_max, Len(x1))
find_lower_bound(x1, x2, v1, v2, v_max, a_max) ==
    LET d == Len(x1)
        instant == NormInf(x1, x2, v_max, d)
    IN IF BothVelocities(v1, v2)
       THEN RMaxOf(instant, NormInf(v1, v2, a_max, d))
       ELSE instant

----------------------------------------------------------------------------
(* get_curve_collision_fn *)

\* [t0, t1] with None read as the curve's own start and end.
Window(curve, t0, t1) ==
    LET lo == IF t0 = None THEN curve.x[1] ELSE t0
        hi == IF t1 = None THEN curve.x[Len(curve.x)] ELSE t1
    IN lo..hi

\* check_spline(curve, v_max, a_max, start_t, end_t): TRUE when the curve
\* stays within the given bounds over the window; a bound of None is not
\* checked.
check_spline(curve, v_max, a_max, start_t, end_t) ==
    /\ (v_max = NoVec) \/ (curve.vbad \cap Window(curve, start_t, end_t) = {})
    /\ (a_max = NoVec) \/ (curve.abad \cap Window(curve, start_t, end_t) = {})

\* time_discretize_curve(curve, start_t, end_t): the sample times.
time_discretize_curve(curve, start_t, end_t) == Window(curve, start_t, end_t)

\* The arguments curve_collision_fn hands to check_spline: a_max=None, and
\* start_t, end_t left at their defaults.
SplineOk(curve, t0, t1, max_velocities, max_accelerations) ==
    check_spline(curve, max_velocities, NoVec, None, None)

Samples(curve, t0, t1) == time_discretize_curve(curve, t0, t1)

\* TRUE when the curve is rejected; the code's implicit None is FALSE.
curve_collision_fn(curve, t0, t1, max_velocities, max_accelerations) ==
    IF curve = NoCurve THEN TRUE
    ELSE IF ~SplineOk(curve, t0, t1, max_velocities, max_accelerations)
    THEN TRUE
    ELSE Samples(curve, t0, t1) \cap curve.hit # {}

----------------------------------------------------------------------------
(* Curves *)

Last(s) == s[Len(s)]

\* spline_duration(curve): end time minus start time.
spline_duration(curve) == Last(curve.x) - curve.x[1]

StrictlyIncreasing(s) == \A i \in 1..(Len(s) - 1) : s[i] < s[i + 1]

\* [0.] + [t2 - t1 for t1, t2 in get_pairs(times)]
Durations(times) ==
    [i \in 1..Len(times) |-> IF i = 1 THEN 0 ELSE times[i] - times[i - 1]]

\* np.cumsum
RECURSIVE Sum(_, _)
Sum(s, k) == IF k = 0 THEN 0 ELSE Sum(s, k - 1) + s[k]
cumsum(s) == [i \in 1..Len(s) |-> Sum(s, i)]

\* The 1-based positions at which t is a knot of the curve.
KnotsAt(curve, t) == {i \in 1..Len(curve.x) : curve.x[i] = t}

\* positions_curve(t) and velocities_curve(t): the knot's sample at a knot,
\* a value the interpolant can take between knots (there the curve moves).
Pos == {<<0>>}
Vel == {<<1>>}
PositionsAt(curve, t) ==
    IF KnotsAt(curve, t) # {} THEN {curve.p[i] : i \in KnotsAt(curve, t)} ELSE Pos
VelocitiesAt(curve, t) ==
    IF KnotsAt(curve, t) # {} THEN {curve.v[i] : i \in KnotsAt(curve, t)} ELSE Vel

\* What can be wrong with a curve an external constructor returns.
Defects(x) ==
    { [vbad |-> {}, abad |-> {}, hit |-> {}],
      [vbad |-> {x[1]}, abad |-> {}, hit |-> {}],
      [vbad |-> {}, abad |-> {x[1]}, hit |-> {}],
      [vbad |-> {}, abad |-> {}, hit |-> {Last(x)}] }

MkCurve(x, p, v, df) ==
    [x |-> x, p |-> p, v |-> v, vbad |-> df.vbad, abad |-> df.abad, hit |-> df.hit]

----------------------------------------------------------------------------
(* smooth_curve: one pass of the loop body *)

Min(a, b) == IF a <= b THEN a ELSE b
Max(a, b) == IF a <= b THEN b ELSE a

\* find(lambda i: times[i] <= t1, reversed(range(len(times)))): the greatest
\* knot index at or before t1.  Indices are 1-based here, so the Python
\* slice s[:i1+1] is SubSeq(s, 1, i1) and s[i2:] is SubSeq(s, i2, Len(s)).
Index1(times, t1) ==
    CHOOSE i \in 1..Len(times) :
        /\ times[i] <= t1
        /\ \A j \in (i + 1)..Len(times) : ~(times[j] <= t1)

\* find(lambda i: times[i] >= t2, range(len(times))): the least knot index
\* at or after t2.
Index2(times, t2) ==
    CHOOSE i \in 1..Len(times) :
        /\ times[i] >= t2
        /\ \A j \in 1..(i - 1) : ~(times[j] >= t2)

\* t1, t2 = np.random.uniform(times[0], times[-1], 2), swapped when t1 > t2.
SampledPairs(times) ==
    { <<Min(u1, u2), Max(u1, u2)>> : u1 \in times[1]..Last(times),
                                     u2 \in times[1]..Last(times) }

\* assert i1 != i2
IndexAssertGap(i1, i2) == i2 > i1 + 1
IndexAssert(i1, i2) == i1 # i2

\* if min_t >= max_t: continue
BoundGateOff(min_t, max_t) == FALSE
BoundGate(min_t, max_t) == RGeqInt(min_t, max_t)

\* if (best_t is None) or (best_t >= max_t): continue
SolverGate(best_t, max_t) == (best_t = None) \/ (best_t >= max_t)

\* if (new_positions_curve is None) or (spline_duration(...) > max_t): continue
LocalGate(local, max_t) == (local = NoCurve) \/ (spline_duration(local) > max_t)

\* if (new_positions_curve is None) or
\*    (spline_duration(new_positions_curve) >= spline_duration(positions_curve)): continue
RegressGateLax(new, cur) ==
    (new = NoCurve) \/ (spline_duration(new) > spline_duration(cur))
RegressGate(new, cur) ==
    (new = NoCurve) \/ (spline_duration(new) >= spline_duration(cur))

\* if curve_collision_fn(new_positions_curve, t0=None, t1=None): continue
FinalGateOff(new, v_max, a_max) == FALSE
FinalGate(new, v_max, a_max) == curve_collision_fn(new, None, None, v_max, a_max)

\* solve_multivariate_ramp(x1, x2, v1, v2, v_max, a_max): a duration or None.
RampOutcomes(max_t) == {None} \cup 1..Max(max_t, 1)

\* solve_multi_poly(times=[0, best_t], ...): None, or a curve from the first
\* boundary state to the second, of the asked duration or a longer one, with
\* or without an inner breakpoint.
LocalCurves(best_t, x1, x2, v1, v2) ==
    {NoCurve}
    \cup { MkCurve(<<0, best_t>>, <<x1, x2>>, <<v1, v2>>, df) :
             df \in Defects(<<0, best_t>>) }
    \cup { MkCurve(<<0, best_t + 1>>, <<x1, x2>>, <<v1, v2>>,
                   [vbad |-> {}, abad |-> {}, hit |-> {}]) }
    \cup { MkCurve(<<0, a, best_t>>, <<x1, x1, x2>>, <<v1, v1, v2>>,
                   [vbad |-> {}, abad |-> {}, hit |-> {}]) :
             a \in 1..(best_t - 1) }

\* spliced_durations, spliced_positions, spliced_velocities (lines 131,
\* 109-110, and 149-152 when intermediate).
SplicedDurations(intermediate, times, t1, t2, i1, i2, best_t, local) ==
    IF intermediate
    THEN <<t1 - times[i1]>>
         \o [k \in 1..(Len(local.x) - 1) |-> local.x[k + 1] - local.x[1]]
         \o <<times[i2] - t2>>
    ELSE <<t1 - times[i1], best_t, times[i2] - t2>>
SplicedPositions(intermediate, x1, x2, local) ==
    IF intermediate THEN local.p ELSE <<x1, x2>>
SplicedVelocities(intermediate, v1, v2, local) ==
    IF intermediate THEN local.v ELSE <<v1, v2>>

\* np.cumsum(np.concatenate([durations[:i1+1], spliced_durations, durations[i2+1:]]))
NewTimes(times, i1, i2, spliced_durations) ==
    cumsum(SubSeq(Durations(times), 1, i1) \o spliced_durations
           \o SubSeq(Durations(times), i2 + 1, Len(times)))
\* positions[:i1+1] + spliced_positions + positions[i2:]
NewSamples(samples, i1, i2, spliced) ==
    SubSeq(samples, 1, i1) \o spliced \o SubSeq(samples, i2, Len(samples))

\* CubicHermiteSpline(new_times, new_positions, dydx=new_velocities): raises
\* ValueError unless the times are strictly increasing.
CubicHermiteSpline(x, p, v) ==
    IF StrictlyIncreasing(x)
    THEN { [raised |-> FALSE, curve |-> MkCurve(x, p, v, df)] : df \in Defects(x) }
    ELSE { [raised |-> TRUE, curve |-> NoCurve] }

\* solve_multi_poly(new_times, new_positions, new_velocities, v_max, a_max):
\* None or a curve through the given knots.
solve_multi_poly(x, p, v) ==
    { [raised |-> FALSE, curve |-> NoCurve] }
    \cup { [raised |-> FALSE, curve |-> MkCurve(x, p, v, df)] : df \in Defects(x) }

\* trim(positions_curve, end=t1).append(new_positions_curve,
\*                                      trim(positions_curve, start=t2))
TrimAppend(cur, t1, t2, local) ==
    LET n == Len(cur.x)
        pre == {i \in 1..n : cur.x[i] < t1}
        post == {i \in 1..n : cur.x[i] > t2}
        np == Cardinality(pre)
        first == n - Cardinality(post) + 1
        shift == (t1 + spline_duration(local)) - t2
        x == SubSeq(cur.x, 1, np) \o [k \in 1..Len(local.x) |-> t1 + local.x[k]]
             \o [k \in 1..Cardinality(post) |-> cur.x[first + k - 1] + shift]
        pp == SubSeq(cur.p, 1, np) \o local.p \o SubSeq(cur.p, first, n)
        vv == SubSeq(cur.v, 1, np) \o local.v \o SubSeq(cur.v, first, n)
    IN { [raised |-> FALSE, curve |-> MkCurve(x, pp, vv, df)] : df \in Defects(x) }

\* Lines 164-184: the curve the pass proposes.
Refits(o, cur, t1, t2, local, new_times, new_positions, new_velocities) ==
    IF o.refit
    THEN IF o.cubic
         THEN CubicHermiteSpline(new_times, new_positions, new_velocities)
         ELSE solve_multi_poly(new_times, new_positions, new_velocities)
    ELSE TrimAppend(cur, t1, t2, local)

----------------------------------------------------------------------------
(* smooth_curve: state machine *)

\* The record of the latest pass of the loop body.
NoPass ==
    [outcome |-> "none", t1 |-> None, t2 |-> None, i1 |-> None, i2 |-> None,
     min_t |-> Rat(0, 1), max_t |-> None, bounded |-> FALSE, solved |-> FALSE,
     best_t |-> None, local_x |-> << >>, spliced_durations |-> << >>,
     new_times |-> << >>, new_positions |-> << >>, new_velocities |-> << >>,
     before |-> NoCurve]

NoCall == [fn |-> "none"]

\* for iteration in range(num)
LoopGuardLax(i, num) == i <= num
LoopGuard(i, num) == i < num

\* continue: the current curve stays.
Continue(rec) ==
    /\ last' = rec
    /\ pc' = "continue"
    /\ UNCHANGED <<opts, start_positions_curve, positions_curve, iteration, result, call>>

\* An exception leaves smooth_curve.
Raise(rec) ==
    /\ last' = rec
    /\ pc' = "fault"
    /\ UNCHANGED <<opts, start_positions_curve, positions_curve, iteration, result, call>>

\* positions_curve = new_positions_curve
Accept(rec, new) ==
    /\ last' = rec
    /\ positions_curve' = new
    /\ pc' = "continue"
    /\ UNCHANGED <<opts, start_positions_curve, iteration, result, call>>

\* Lines 131-193, once the local replacement has passed its checks.
SpliceAndRefit(rec, t1, t2, i1, i2, x1, x2, v1, v2, best_t, local) ==
    LET cur == positions_curve
        sd == SplicedDurations(opts.intermediate, cur.x, t1, t2, i1, i2, best_t, local)
        sp == SplicedPositions(opts.intermediate, x1, x2, local)
        sv == SplicedVelocities(opts.intermediate, v1, v2, local)
        nt == NewTimes(cur.x, i1, i2, sd)
        np == NewSamples(cur.p, i1, i2, sp)
        nv == NewSamples(cur.v, i1, i2, sv)
        built == [rec EXCEPT !.spliced_durations = sd, !.new_times = nt,
                             !.new_positions = np, !.new_velocities = nv]
    IN \E r \in Refits(opts, cur, t1, t2, local, nt, np, nv) :
         IF r.raised THEN Raise([built EXCEPT !.outcome = "refit_raised"])
         ELSE IF RegressGate(r.curve, cur)
         THEN Continue([built EXCEPT !.outcome = "regress"])
         ELSE IF FinalGate(r.curve, opts.v_max, opts.a_max)
         THEN Continue([built EXCEPT !.outcome = "infeasible"])
         ELSE Accept([built EXCEPT !.outcome = "accepted"], r.curve)

\* Lines 118-145: the pruning gates.
Gates(rec, t1, t2, i1, i2, x1, x2, v1, v2) ==
    LET min_t == find_lower_bound(x1, x2, v1, v2, opts.v_max, opts.a_max)
        max_t == (t2 - t1) - opts.min_improve
        g == [rec EXCEPT !.min_t = min_t, !.max_t = max_t, !.bounded = TRUE]
    IN IF BoundGate(min_t, max_t)
       THEN Continue([g EXCEPT !.outcome = "bound"])
       ELSE \E best_t \in RampOutcomes(max_t) :
            LET s == [g EXCEPT !.solved = TRUE, !.best_t = best_t]
            IN IF SolverGate(best_t, max_t)
               THEN Continue([s EXCEPT !.outcome = "solver"])
               ELSE \E local \in LocalCurves(best_t, x1, x2, v1, v2) :
                    IF LocalGate(local, max_t)
                    THEN Continue([s EXCEPT !.outcome = "local"])
                    ELSE IF curve_collision_fn(local, None, None, opts.v_max, opts.a_max)
                    THEN Continue([s EXCEPT !.outcome = "local_collision"])
                    ELSE SpliceAndRefit([s EXCEPT !.local_x = local.x],
                                        t1, t2, i1, i2, x1, x2, v1, v2, best_t, local)

\* Lines 92-107: sample the pair and bracket it.
Iteration ==
    /\ pc = "loop"
    /\ LoopGuard(iteration, opts.num)
    /\ \E ts \in SampledPairs(positions_curve.x) :
         LET times == positions_curve.x
             t1 == ts[1]
             t2 == ts[2]
             i1 == Index1(times, t1)
             i2 == Index2(times, t2)
             rec == [NoPass EXCEPT !.t1 = t1, !.t2 = t2, !.i1 = i1, !.i2 = i2,
                                   !.before = positions_curve]
         IN IF ~IndexAssert(i1, i2)
            THEN Raise([rec EXCEPT !.outcome = "assert"])
            ELSE \E x1 \in PositionsAt(positions_curve, t1),
                    x2 \in PositionsAt(positions_curve, t2),
                    v1 \in VelocitiesAt(positions_curve, t1),
                    v2 \in VelocitiesAt(positions_curve, t2) :
                   Gates(rec, t1, t2, i1, i2, x1, x2, v1, v2)

\* Line 89: the for statement moves on to the next pass; the locals of the
\* pass that ended are dead.
Advance ==
    /\ pc = "continue"
    /\ pc' = "loop"
    /\ iteration' = iteration + 1
    /\ last' = NoPass
    /\ UNCHANGED <<opts, start_positions_curve, positions_curve, result, call>>

\* Line 85: an input that fails the feasibility test is returned as it is.
InputGateOff(curve, v_max, a_max) == FALSE
InputGate(curve, v_max, a_max) == curve_collision_fn(curve, None, None, v_max, a_max)

CheckInput ==
    /\ pc = "start"
    /\ IF InputGate(start_positions_curve, opts.v_max, opts.a_max)
       THEN /\ pc' = "done"
            /\ result' = start_positions_curve
            /\ UNCHANGED positions_curve
       ELSE /\ pc' = "loop"
            /\ positions_curve' = start_positions_curve
            /\ UNCHANGED result
    /\ UNCHANGED <<opts, start_positions_curve, iteration, last, call>>

\* Line 90: the time budget max_time, when finite, can be found spent at the
\* top of any pass.
TimeBreak ==
    /\ pc = "loop"
    /\ LoopGuard(iteration, opts.num)
    /\ pc' = "done"
    /\ result' = positions_curve
    /\ UNCHANGED <<opts, start_positions_curve, positions_curve, iteration, last, call>>

\* Lines 194-197: the budget of passes is spent.
LoopEnd ==
    /\ pc = "loop"
    /\ ~LoopGuard(iteration, opts.num)
    /\ pc' = "done"
    /\ result' = positions_curve
    /\ UNCHANGED <<opts, start_positions_curve, positions_curve, iteration, last, call>>

\* The input curves: two or three knots from 0 to MaxTime, waypoints
\* alternating, zero velocity at every knot (run.py builds them so), any one
\* defect; or no curve at all.
InputTimes ==
    { <<0, MaxTime>> } \cup { <<0, t, MaxTime>> : t \in 1..(MaxTime - 1) }
InputCurves ==
    { MkCurve(x, [i \in 1..Len(x) |-> <<i % 2>>], [i \in 1..Len(x) |-> <<0>>], df) :
        x \in InputTimes, df \in Defects(<<0, 1>>) }
    \cup {NoCurve}

Options ==
    { [intermediate |-> im, cubic |-> cu, refit |-> rf, num |-> n,
       min_improve |-> e, v_max |-> <<1>>, a_max |-> <<1>>] :
        im \in BOOLEAN, cu \in BOOLEAN, rf \in BOOLEAN, n \in 0..MaxNum,
        e \in {0, 1} }

Init ==
    /\ pc = "start"
    /\ opts \in { o \in Options : o.refit \/ o.cubic }
    /\ start_positions_curve \in InputCurves
    /\ positions_curve = NoCurve
    /\ iteration = 0
    /\ result = NoCurve
    /\ last = NoPass
    /\ call = NoCall

Next == CheckInput \/ Iteration \/ Advance \/ TimeBreak \/ LoopEnd

Spec == Init /\ [][Next]_vars

----------------------------------------------------------------------------
(* find_lower_bound and curve_collision_fn called on their own *)

Coords == { <<a, b>> : a \in {0, 5}, b \in {0, 5} }
Rates == { <<a, b>> : a \in {0, 2}, b \in {0, 2} }

\* One curve per choice of where it breaks each bound and where it collides.
ProbeCurves ==
    { [x |-> <<0, 2>>, p |-> <<<<0>>, <<1>>>>, v |-> <<<<0>>, <<0>>>>,
       vbad |-> vb, abad |-> ab, hit |-> h] :
        vb \in SUBSET {0, 2}, ab \in SUBSET {0, 2}, h \in SUBSET {0, 2} }
    \cup {NoCurve}

CallFindLowerBound ==
    /\ pc = "pure"
    /\ \E x1 \in Coords, x2 \in Coords, v1 \in Rates \cup {NoVec},
          v2 \in Rates \cup {NoVec}, v_max \in {NoVec, <<5, 5>>, <<2, 5>>},
          a_max \in {NoVec, <<1, 2>>} :
         call' = [fn |-> "find_lower_bound", x1 |-> x1, x2 |-> x2, v1 |-> v1,
                  v2 |-> v2, v_max |-> v_max, a_max |-> a_max,
                  out |-> find_lower_bound(x1, x2, v1, v2, v_max, a_max)]
    /\ pc' = "returned"
    /\ UNCHANGED <<opts, start_positions_curve, positions_curve, iteration,
                   result, last>>

CallCurveCollisionFn ==
    /\ pc = "pure"
    /\ \E curve \in ProbeCurves, t0 \in {None, 0, 1}, t1 \in {None, 1, 2},
          mv \in {NoVec, <<1>>}, ma \in {NoVec, <<1>>} :
         call' = [fn |-> "curve_collision_fn", curve |-> curve, t0 |-> t0,
                  t1 |-> t1, max_velocities |-> mv, max_accelerations |-> ma,
                  out |-> curve_collision_fn(curve, t0, t1, mv, ma)]
    /\ pc' = "returned"
    /\ UNCHANGED <<opts, start_positions_curve, positions_curve, iteration,
                   result, last>>

InitFn ==
    /\ pc = "pure"
    /\ opts = [intermediate |-> TRUE, cubic |-> TRUE, refit |-> TRUE, num |-> 0,
               min_improve |-> 0, v_max |-> <<1>>, a_max |-> <<1>>]
    /\ start_positions_curve = NoCurve
    /\ positions_curve = NoCurve
    /\ iteration = 0
    /\ result = NoCurve
    /\ last = NoPass
    /\ call = NoCall

NextFn == CallFindLowerBound \/ CallCurveCollisionFn

SpecFn == InitFn /\ [][NextFn]_vars

----------------------------------------------------------------------------
(* Properties *)

\* The verdict of the feasibility test smooth_curve applies (whole curve).
Rejected(curve) == curve_collision_fn(curve, None, None, opts.v_max, opts.a_max)

\* A pass of the loop body has ended (by continue, acceptance or exception).
PassEnded == last.outcome # "none"

\* The pass built the spliced time vector (line 157 was reached).
SpliceBuilt == last.new_times # << >>

\* C1: the returned curve is never longer than the input curve, no current
\* curve is longer than the input, and a pass replaces the current curve only
\* by a strictly shorter one and otherwise leaves it as it was.
C1_DurationNeverIncreases ==
    /\ (pc = "done" /\ result # NoCurve) =>
         spline_duration(result) <= spline_duration(start_positions_curve)
    /\ (positions_curve # NoCurve) =>
         spline_duration(positions_curve) <= spline_duration(start_positions_curve)
    /\ PassEnded =>
         IF positions_curve # last.before
         THEN spline_duration(positions_curve) < spline_duration(last.before)
         ELSE last.outcome # "accepted"

\* C1 witness: a second acceptance in one run, so three successive current
\* curves of decreasing duration.
C1_Witness ==
    /\ pc = "continue"
    /\ last.outcome = "accepted"
    /\ iteration = 1
    /\ spline_duration(positions_curve) < spline_duration(last.before)
    /\ spline_duration(last.before) < spline_duration(start_positions_curve)

\* C2: when the input curve passes the feasibility test, every current curve
\* passes it and so does the returned curve; a pass that does not accept
\* leaves the current curve as it was.
C2_FeasibilityPreserved ==
    (start_positions_curve # NoCurve /\ ~Rejected(start_positions_curve)) =>
        /\ (positions_curve # NoCurve) => ~Rejected(positions_curve)
        /\ (pc = "done") => ~Rejected(result)
        /\ (PassEnded /\ last.outcome # "accepted") => positions_curve = last.before

\* C2 witness: a run that accepted a refit and returned it.
C2_Witness ==
    /\ pc = "done"
    /\ result # start_positions_curve
    /\ ~Rejected(start_positions_curve)
    /\ ~Rejected(result)

\* C3: an input curve that fails the feasibility test is returned as it is,
\* with no pass of the loop run: nothing sampled, no ramp solved, no splice.
C3_InfeasibleInputReturned ==
    (pc # "start" /\ Rejected(start_positions_curve)) =>
        /\ pc = "done"
        /\ result = start_positions_curve
        /\ last = NoPass
        /\ iteration = 0
        /\ positions_curve = NoCurve

\* C3 witness: a present but colliding input curve, returned with a positive
\* budget of passes left unused.
C3_Witness ==
    /\ pc = "done"
    /\ start_positions_curve # NoCurve
    /\ Rejected(start_positions_curve)
    /\ opts.num > 0
    /\ result = start_positions_curve

\* C4 (as claimed): every accepted candidate has i1 < i2 and a strictly
\* increasing spliced time vector, also when t1 or t2 is a knot time.
C4_SpliceStrictlyIncreasing ==
    (last.outcome = "accepted") =>
        /\ last.i1 < last.i2
        /\ StrictlyIncreasing(last.new_times)

\* C5: with availableTime = (t2 - t1) - min_improve, a candidate whose lower
\* bound reaches availableTime is discarded with the ramp solver not called;
\* one whose solve fails or takes availableTime or more is discarded before
\* any splice; so every splice built and every curve accepted has
\* lowerBound < availableTime and bestT < availableTime.
C5_GatesInOrder ==
    /\ last.bounded => last.max_t = (last.t2 - last.t1) - opts.min_improve
    /\ (last.bounded /\ last.min_t.n >= last.max_t * last.min_t.d) =>
         /\ last.outcome = "bound"
         /\ ~last.solved
         /\ ~SpliceBuilt
    /\ (last.solved /\ (last.best_t = None \/ last.best_t >= last.max_t)) =>
         /\ last.outcome = "solver"
         /\ ~SpliceBuilt
    /\ last.solved => last.bounded
    /\ (SpliceBuilt \/ last.outcome = "accepted") =>
         /\ last.bounded /\ last.solved
         /\ last.min_t.n < last.max_t * last.min_t.d
         /\ last.best_t # None
         /\ last.best_t < (last.t2 - last.t1) - opts.min_improve

\* C5 witness: an accepted candidate under a positive min_improve whose lower
\* bound was positive.
C5_Witness ==
    /\ last.outcome = "accepted"
    /\ opts.min_improve = 1
    /\ last.min_t.n > 0

\* C6 (as claimed): a pass whose pair gives i1 = i2 is discarded, the loop
\* goes on with the current curve unchanged, and smooth_curve does not end
\* with a fault.
C6_EqualIndicesDiscarded ==
    (PassEnded /\ last.i1 = last.i2) =>
        /\ pc = "continue"
        /\ positions_curve = last.before

\* The knots of the curve the pass worked on that lie in [t1, t2].
KnotsBetween == { k \in 1..Len(last.before.x) :
                    last.t1 <= last.before.x[k] /\ last.before.x[k] <= last.t2 }

\* C8 (as claimed): a candidate that reaches the lower-bound step spans a
\* knot of the current curve, so a pair inside one segment never reaches it.
C8_SpansInteriorKnot ==
    last.bounded => KnotsBetween # {}

\* C8 (amended): the index step stops a pass exactly when i1 = i2; a pair
\* with no knot in [t1, t2], both samples strictly inside one segment, has
\* i2 = i1 + 1, is not stopped there and reaches the lower-bound step.
C8_IndexStepPassesSegment ==
    PassEnded =>
        /\ (last.outcome = "assert") <=> (last.i1 = last.i2)
        /\ (last.outcome # "assert") => last.bounded
        /\ (KnotsBetween = {}) =>
             /\ last.i2 = last.i1 + 1
             /\ last.outcome # "assert"
             /\ last.bounded

\* C8 witness: a pair strictly inside one segment whose candidate went on to
\* the ramp solver and the splice.
C8_Witness ==
    /\ PassEnded
    /\ KnotsBetween = {}
    /\ last.t1 < last.t2
    /\ last.solved
    /\ SpliceBuilt

\* C9: with num = 0 no pass of the loop body runs and the input curve is
\* what is returned, whether or not it passes the feasibility test.
C9_ZeroBudget ==
    (opts.num = 0) =>
        /\ last = NoPass
        /\ iteration = 0
        /\ positions_curve \in {NoCurve, start_positions_curve}
        /\ (pc = "done") => result = start_positions_curve
        /\ pc \notin {"continue", "fault"}

\* C9 witness: a feasible input returned after a loop of zero passes.
C9_Witness ==
    /\ opts.num = 0
    /\ pc = "done"
    /\ positions_curve = start_positions_curve
    /\ start_positions_curve # NoCurve
    /\ result = start_positions_curve

\* The successive knot-to-knot durations of the local replacement.
LocalDurations ==
    [k \in 1..(Len(last.local_x) - 1) |-> last.local_x[k + 1] - last.local_x[k]]

\* C11 (as claimed): with or without intermediate knots, the splice inserts
\* t1 - times[i1], then the durations of the local replacement (its
\* successive knot-to-knot durations when its knots are expanded), then
\* times[i2] - t2; so for a local replacement of duration best_t the spliced
\* time vector ends at (old end) - (t2 - t1) + best_t, also when the local
\* replacement has three or more knots; and the times, positions and
\* velocities handed to the refit are equally many.
C11_SpliceDurations ==
    SpliceBuilt =>
        /\ last.spliced_durations =
             <<last.t1 - last.before.x[last.i1]>>
             \o (IF opts.intermediate THEN LocalDurations ELSE <<last.best_t>>)
             \o <<last.before.x[last.i2] - last.t2>>
        /\ (Last(last.local_x) = last.best_t) =>
             Last(last.new_times) =
                 Last(last.before.x) - (last.t2 - last.t1) + last.best_t
        /\ Len(last.new_times) = Len(last.new_positions)
        /\ Len(last.new_times) = Len(last.new_velocities)

----------------------------------------------------------------------------
(* Properties of the functions on their own *)

IsLowerBoundCall == call.fn = "find_lower_bound"
IsCollisionCall == call.fn = "curve_collision_fn"

\* The quotients |b[k] - a[k]| / lim[k] over the dimensions, 0 without limits.
Quotients(a, b, lim) ==
    { IF lim = NoVec THEN [n |-> 0, d |-> 1]
      ELSE Rat(Abs(b[k] - a[k]), lim[k]) : k \in 1..Len(a) }

\* The terms the bound is the maximum of: the position quotients, and the
\* velocity quotients only when both velocities are given.
BoundTerms ==
    Quotients(call.x1, call.x2, call.v_max)
    \cup (IF call.v1 # NoVec /\ call.v2 # NoVec
          THEN Quotients(call.v1, call.v2, call.a_max) ELSE {})

\* C10: find_lower_bound returns the greatest of the position quotients
\* |x2 - x1| / v_max and, only when both velocities are given, the velocity
\* quotients |v2 - v1| / a_max; for x1 = [0,0], x2 = [5,0], v_max = [5,5]
\* and no velocities it returns exactly 1.
C10_LowerBoundIsMax ==
    IsLowerBoundCall =>
        /\ call.out \in BoundTerms
        /\ \A q \in BoundTerms : q.n * call.out.d <= call.out.n * q.d
        /\ (call.x1 = <<0, 0>> /\ call.x2 = <<5, 0>> /\ call.v_max = <<5, 5>>
            /\ call.v1 = NoVec /\ call.v2 = NoVec) => call.out = [n |-> 1, d |-> 1]

\* C10 witness: a call with both velocities given whose result is a velocity
\* quotient larger than every position quotient.
C10_Witness ==
    /\ IsLowerBoundCall
    /\ call.v1 # NoVec /\ call.v2 # NoVec /\ call.a_max # NoVec
    /\ call.out \notin Quotients(call.x1, call.x2, call.v_max)
    /\ call.out = [n |-> 2, d |-> 1]

\* The window the call names, None read as the curve's start and end.
CallWindow ==
    (IF call.t0 = None THEN 0 ELSE call.t0)..(IF call.t1 = None THEN 2 ELSE call.t1)

\* C7 (as claimed): the curve is reported infeasible exactly when it is
\* absent, or exceeds a given velocity bound in [t0, t1], or exceeds a given
\* acceleration bound in [t0, t1], or a sample in [t0, t1] collides.
C7_InfeasibleExactlyWhen ==
    IsCollisionCall =>
        (call.out <=>
            \/ call.curve = NoCurve
            \/ (call.max_velocities # NoVec /\ call.curve.vbad \cap CallWindow # {})
            \/ (call.max_accelerations # NoVec /\ call.curve.abad \cap CallWindow # {})
            \/ call.curve.hit \cap CallWindow # {})

====
